---- MODULE Spec2Model ----
(***************************************************************************)
(* Smart Water Quality Analyzer (src/app.py): the WHO rule check, the      *)
(* hybrid rule + model decision, the conductivity/TDS linked inputs and    *)
(* the Analyze script run.                                                 *)
(*                                                                         *)
(* Every number of the program is a Python float (IEEE-754 binary64).      *)
(* A float is modelled exactly: [m |-> mantissa, e |-> exponent] stands    *)
(* for m * 2^e with 2^52 <= m < 2^53 (or m = 0), the mantissa held as a     *)
(* little-endian sequence of 15-bit limbs.  * and / round to nearest, ties *)
(* to even, as the hardware does.  All values of the program are finite    *)
(* and non-negative: the widgets bound them to [0, 5000], and the values   *)
(* typed here have two decimals, so that no subnormal, infinity or NaN     *)
(* arises and the exponent needs no limit.                                 *)
(***************************************************************************)
EXTENDS Integers, Sequences, FiniteSets, TLC

(***************************************************************************)
(* Natural numbers of any size: little-endian limbs, no high zero limb.    *)
(***************************************************************************)
LimbBits == 15
Base == 2^LimbBits

RECURSIVE Trim(_)
Trim(a) ==
    IF a = <<>> THEN a
    ELSE IF a[Len(a)] = 0 THEN Trim(SubSeq(a, 1, Len(a) - 1)) ELSE a

RECURSIVE NatToBig(_)
NatToBig(n) == IF n = 0 THEN <<>> ELSE <<n % Base>> \o NatToBig(n \div Base)

Limb(a, i) == IF i <= Len(a) THEN a[i] ELSE 0

RECURSIVE AddFrom(_, _, _, _)
AddFrom(a, b, i, carry) ==
    IF i > Len(a) /\ i > Len(b)
    THEN (IF carry = 0 THEN <<>> ELSE <<carry>>)
    ELSE LET s == Limb(a, i) + Limb(b, i) + carry
         IN  <<s % Base>> \o AddFrom(a, b, i + 1, s \div Base)

BAdd(a, b) == AddFrom(a, b, 1, 0)

RECURSIVE SubFrom(_, _, _, _)
SubFrom(a, b, i, borrow) ==
    IF i > Len(a) THEN <<>>
    ELSE LET d == a[i] - Limb(b, i) - borrow
         IN  IF d < 0 THEN <<d + Base>> \o SubFrom(a, b, i + 1, 1)
                      ELSE <<d>> \o SubFrom(a, b, i + 1, 0)

\* a - b, for a >= b
BSub(a, b) == Trim(SubFrom(a, b, 1, 0))

RECURSIVE CmpFrom(_, _, _)
CmpFrom(a, b, i) ==
    IF i = 0 THEN 0
    ELSE IF a[i] > b[i] THEN 1
    ELSE IF a[i] < b[i] THEN -1
    ELSE CmpFrom(a, b, i - 1)

\* -1, 0 or 1 as a < b, a = b or a > b
BCmp(a, b) ==
    IF Len(a) > Len(b) THEN 1
    ELSE IF Len(a) < Len(b) THEN -1
    ELSE CmpFrom(a, b, Len(a))

RECURSIVE MulSmallFrom(_, _, _, _)
MulSmallFrom(a, d, i, carry) ==
    IF i > Len(a)
    THEN (IF carry = 0 THEN <<>> ELSE <<carry>>)
    ELSE LET p == a[i] * d + carry
         IN  <<p % Base>> \o MulSmallFrom(a, d, i + 1, p \div Base)

\* a * d, for a limb d
BMulSmall(a, d) == IF d = 0 THEN <<>> ELSE MulSmallFrom(a, d, 1, 0)

ShiftLimbs(a, n) == IF a = <<>> THEN a ELSE [i \in 1..n |-> 0] \o a

RECURSIVE MulFrom(_, _, _)
MulFrom(a, b, j) ==
    IF j > Len(b) THEN <<>>
    ELSE BAdd(ShiftLimbs(BMulSmall(a, b[j]), j - 1), MulFrom(a, b, j + 1))

BMul(a, b) == MulFrom(a, b, 1)

\* a * 2^n
BShl(a, n) == ShiftLimbs(BMulSmall(a, 2^(n % LimbBits)), n \div LimbBits)

ShrBits(a, r) ==
    Trim([i \in 1..Len(a) |->
            (a[i] \div 2^r) + (Limb(a, i + 1) % 2^r) * 2^(LimbBits - r)])

\* floor(a / 2^n)
BShr(a, n) ==
    LET k == n \div LimbBits
    IN  IF k >= Len(a) THEN <<>>
        ELSE ShrBits(SubSeq(a, k + 1, Len(a)), n % LimbBits)

RECURSIVE SmallBitLen(_)
SmallBitLen(n) == IF n = 0 THEN 0 ELSE 1 + SmallBitLen(n \div 2)

BBitLen(a) ==
    IF a = <<>> THEN 0 ELSE LimbBits * (Len(a) - 1) + SmallBitLen(a[Len(a)])

\* One digit of a long division: the largest d with b * d <= r, for r < b * Base
\* and b's high limb at least Base / 2.  The quotient of the two high limbs of r
\* by the high limb of b is that digit or exceeds it by at most 2.
QuotDigit(r, b) ==
    LET n   == Len(b)
        est == (Limb(r, n + 1) * Base + Limb(r, n)) \div b[n]
        d0  == IF est > Base - 1 THEN Base - 1 ELSE est
    IN  IF BCmp(BMulSmall(b, d0), r) <= 0 THEN d0
        ELSE IF BCmp(BMulSmall(b, d0 - 1), r) <= 0 THEN d0 - 1
        ELSE d0 - 2

\* Long division in base Base: qr is the quotient and remainder of the limbs
\* above j, and limb j of a is brought down next.
RECURSIVE DivLimbs(_, _, _, _)
DivLimbs(qr, a, b, j) ==
    IF j = 0 THEN [q |-> Trim(qr.q), r |-> qr.r]
    ELSE LET r2   == Trim(<<a[j]>> \o qr.r)
             d    == QuotDigit(r2, b)
             next == [q |-> <<d>> \o qr.q, r |-> BSub(r2, BMulSmall(b, d))]
         IN  \* the test makes TLC finish this limb before it starts the next
             IF next = next THEN DivLimbs(next, a, b, j - 1) ELSE next

\* [q |-> floor(a / b), r |-> a mod b], for b > 0
BDivMod(a, b) ==
    LET s  == LimbBits - SmallBitLen(b[Len(b)])
        qr == DivLimbs([q |-> <<>>, r |-> <<>>], BShl(a, s), BShl(b, s), Len(BShl(a, s)))
    IN  [q |-> qr.q, r |-> BShr(qr.r, s)]

(***************************************************************************)
(* binary64 arithmetic.                                                    *)
(***************************************************************************)
MantBits == 53

Zero == [m |-> <<>>, e |-> 0]

IsZero(x) == x.m = <<>>

\* The nearest double to n * 2^e (ties to even); sticky says that the exact
\* value lies strictly above n * 2^e and below (n + 1) * 2^e.
RoundToDouble(n, e, sticky) ==
    IF n = <<>> THEN Zero
    ELSE LET len == BBitLen(n)
         IN  IF len <= MantBits
             THEN [m |-> BShl(n, MantBits - len), e |-> e - (MantBits - len)]
             ELSE LET s    == len - MantBits
                      q    == BShr(n, s)
                      rem  == BSub(n, BShl(q, s))
                      half == BShl(<<1>>, s - 1)
                      c    == BCmp(rem, half)
                      up   == c > 0 \/ (c = 0 /\ (sticky \/ q[1] % 2 = 1))
                      q1   == IF up THEN BAdd(q, <<1>>) ELSE q
                  IN  IF BBitLen(q1) > MantBits
                      THEN [m |-> BShr(q1, 1), e |-> e + s + 1]
                      ELSE [m |-> q1, e |-> e + s]

\* float(n) for a natural number n
FromInt(n) == RoundToDouble(NatToBig(n), 0, FALSE)

\* x * y
DMul(x, y) ==
    IF IsZero(x) \/ IsZero(y) THEN Zero
    ELSE RoundToDouble(BMul(x.m, y.m), x.e + y.e, FALSE)

\* What x / y yields when y is zero: Python raises instead of returning.
ZeroDivisionError == [raise |-> "ZeroDivisionError"]

\* x / y
DDiv(x, y) ==
    IF IsZero(y) THEN ZeroDivisionError
    ELSE IF IsZero(x) THEN Zero
    ELSE LET qr == BDivMod(BShl(x.m, MantBits + 2), y.m)
         IN  RoundToDouble(qr.q, x.e - y.e - (MantBits + 2), qr.r # <<>>)

\* x < y
DLt(x, y) ==
    IF IsZero(y) THEN FALSE
    ELSE IF IsZero(x) THEN TRUE
    ELSE LET tx == x.e + MantBits
             ty == y.e + MantBits
         IN  tx < ty \/ (tx = ty /\ BCmp(x.m, y.m) < 0)

DGt(x, y) == DLt(y, x)
DGe(x, y) == ~DLt(x, y)
DLe(x, y) == ~DLt(y, x)

\* The float a decimal literal n/d denotes (n, d naturals, d > 0): the nearest
\* double to the quotient, which is what correctly rounded parsing yields.
Dec(n, d) == DDiv(FromInt(n), FromInt(d))

\* The doubles next above and next below a double x > 0.
NextUp(x) ==
    LET m1 == BAdd(x.m, <<1>>)
    IN  IF BBitLen(m1) > MantBits THEN [m |-> BShr(m1, 1), e |-> x.e + 1]
                                  ELSE [m |-> m1, e |-> x.e]

NextDown(x) ==
    LET m1 == BSub(x.m, <<1>>)
    IN  IF BBitLen(m1) < MantBits
        THEN [m |-> BAdd(BShl(m1, 1), <<1>>), e |-> x.e - 1]
        ELSE [m |-> m1, e |-> x.e]

\* x and y are the same double or neighbours (one unit in the last place apart)
WithinOneUlp(x, y) ==
    \/ x = y
    \/ /\ ~IsZero(x)
       /\ ~IsZero(y)
       /\ (x = NextUp(y) \/ x = NextDown(y))


(***************************************************************************)
(* The literals of the program.                                            *)
(***************************************************************************)
TdsFactorLiteral == Dec(64, 100)      \* TDS_FACTOR = 0.64
PhLow            == Dec(65, 10)       \* 6.5
PhHigh           == Dec(85, 10)       \* 8.5
TurbidityLimit   == FromInt(5)
ConductivityLimit == FromInt(400)
OxygenLow        == Dec(65, 10)       \* 6.5
OxygenHigh       == FromInt(8)
TdsLimit         == FromInt(400)
DefaultThreshold == Dec(5, 10)        \* threshold=0.5
DefaultConductivity == FromInt(300)   \* 300.0
DefaultPh        == FromInt(7)        \* number_input("pH", 0.0, 14.0, 7.0)
DefaultTurbidity == FromInt(3)
DefaultOxygen    == FromInt(7)
ConductivityMax  == FromInt(5000)
TdsMax           == FromInt(3200)

\* None as who_rule_check returns it
None == "None"

\* a variable of the script that holds nothing yet
Absent == [absent |-> TRUE]

(***************************************************************************)
(* What the user and the two external collaborators can supply.  A number  *)
(* typed into a widget is given in hundredths (the widgets show two        *)
(* decimals): n stands for the float nearest to n / 100.                   *)
(***************************************************************************)
Typed(n) == Dec(n, 100)

PhInputs            == {Typed(n) : n \in {851}}
TurbidityInputs     == {Typed(n) : n \in {500}}
OxygenInputs        == {Typed(n) : n \in {649}}
ConductivityInputs  == {Typed(n) : n \in {0, 3, 39999, 40000, 62499, 62500, 500000}}
TdsInputs           == {Typed(n) : n \in {0, 35, 25599, 25600, 40000, 320000}}

\* the samples and thresholds hybrid_predict is applied to on its own
SamplePh            == {649, 650, 700, 850, 851}
SampleTurbidity     == {499, 500}
SampleConductivity  == {39999, 40000}
SampleOxygen        == {649, 650, 800, 801}
SampleTds           == {39999, 40000}
ThresholdInputs     == {30, 50, 80}

\* predict_proba's probability of class 1, in hundredths
ProbInputs          == {30, 50, 80}
ErrorDetails        == {"X has 4 features, but StandardScaler is expecting 5"}

\* What scaler.transform and model.predict_proba do when they are called: each
\* returns or raises, and predict_proba's answer is a probability.
AdapterResponses ==
    [transform : {"ok"}, predict_proba : {"ok"}, prob : {Typed(n) : n \in ProbInputs},
     error : {""}]
    \cup [transform : {"raise"}, predict_proba : {"ok"}, prob : {Typed(50)},
          error : ErrorDetails]
    \cup [transform : {"ok"}, predict_proba : {"raise"}, prob : {Typed(50)},
          error : ErrorDetails]

AdapterFails(a) == a.transform = "raise" \/ a.predict_proba = "raise"

\* What client.models.generate_content does: returns a response with a text, or
\* raises.
ReportResponses ==
    {[outcome |-> "ok", text |-> "### 1. Water Quality Classification ..."],
     [outcome |-> "raise", text |-> "503 UNAVAILABLE"]}

\* the round-trip inputs run over 0.00, 0.01, ..., GridMax / 100 and a few more
GridMax == 100
RoundTripInputs == 0..GridMax \cup {19200, 30000, 320000}

VARIABLES
    TDS_FACTOR,        \* the module global of line 177
    session_state,     \* st.session_state: the keys "conductivity" and "tds"
    ph,                \* the value of the pH widget
    turbidity,         \* the value of the Turbidity widget
    dissolved_oxygen,  \* the value of the Dissolved Oxygen widget
    pc,                \* where the script, or the function under test, stands
    sample_df,         \* the one row assembled by the Analyze action
    threshold,         \* hybrid_predict's threshold argument
    adapter,           \* what the scaler and the model do in this evaluation
    result,            \* what hybrid_predict did: returned (decision, prob), calls made
    response,          \* what the report generator did in this run
    insights,          \* what generate_water_insights returned
    display,           \* the elements on the page below the inputs, in order
    last_edit          \* the last linked field the user edited, and the value typed

vars == <<TDS_FACTOR, session_state, ph, turbidity, dissolved_oxygen, pc, sample_df,
          threshold, adapter, result, response, insights, display, last_edit>>

(***************************************************************************)
(* WHO RULE CHECK                                                          *)
(***************************************************************************)
\* Faulty variant: turbidity compared with > instead of >=.
who_rule_check_turbidity_gt(sample) ==
    IF DLt(sample.ph, PhLow) \/ DGt(sample.ph, PhHigh) THEN "0"
    ELSE IF DGt(sample.turbidity, TurbidityLimit) THEN "0"
    ELSE IF DGe(sample.conductivity, ConductivityLimit) THEN "0"
    ELSE IF DLt(sample.dissolved_oxygen, OxygenLow)
            \/ DGt(sample.dissolved_oxygen, OxygenHigh) THEN "0"
    ELSE IF DGe(sample.tds, TdsLimit) THEN "0"
    ELSE None

\* who_rule_check returns the integer 0 or None; they are "0" and None here.
who_rule_check(sample) ==
    IF DLt(sample.ph, PhLow) \/ DGt(sample.ph, PhHigh) THEN "0"
    ELSE IF DGe(sample.turbidity, TurbidityLimit) THEN "0"
    ELSE IF DGe(sample.conductivity, ConductivityLimit) THEN "0"
    ELSE IF DLt(sample.dissolved_oxygen, OxygenLow)
            \/ DGt(sample.dissolved_oxygen, OxygenHigh) THEN "0"
    ELSE IF DGe(sample.tds, TdsLimit) THEN "0"
    ELSE None

(***************************************************************************)
(* HYBRID PREDICTION.  A decision is the text in pieces, the icon first.   *)
(* a is what the adapter does if it is called; calls lists the adapter     *)
(* methods hybrid_predict invoked, in order.                               *)
(***************************************************************************)
RuleViolationText  == <<"CROSS", "Unsafe (WHO Rule Violation)">>
SafeText           == <<"CHECK", "Safe Water">>
NeedsTreatmentText == <<"WARN", "Unsafe / Needs Treatment">>
PredictionErrorText(e) == <<"WARN", "Prediction Error: ", e>>

Return(decision, prob, calls) ==
    [outcome |-> "return", decision |-> decision, prob |-> prob, calls |-> calls]

\* Faulty variant: the adapter is consulted before the rule check.
hybrid_predict_adapter_first(sample, t, a) ==
    IF a.transform = "raise"
    THEN Return(PredictionErrorText(a.error), Zero, <<"transform">>)
    ELSE IF a.predict_proba = "raise"
    THEN Return(PredictionErrorText(a.error), Zero, <<"transform", "predict_proba">>)
    ELSE IF who_rule_check(sample) = "0"
    THEN Return(RuleViolationText, Zero, <<"transform", "predict_proba">>)
    ELSE IF DGe(a.prob, t)
    THEN Return(SafeText, a.prob, <<"transform", "predict_proba">>)
    ELSE Return(NeedsTreatmentText, a.prob, <<"transform", "predict_proba">>)

\* Faulty variant: prob > threshold instead of prob >= threshold.
hybrid_predict_strict(sample, t, a) ==
    IF who_rule_check(sample) = "0"
    THEN Return(RuleViolationText, Zero, <<>>)
    ELSE IF a.transform = "raise"
    THEN Return(PredictionErrorText(a.error), Zero, <<"transform">>)
    ELSE IF a.predict_proba = "raise"
    THEN Return(PredictionErrorText(a.error), Zero, <<"transform", "predict_proba">>)
    ELSE IF DGt(a.prob, t)
    THEN Return(SafeText, a.prob, <<"transform", "predict_proba">>)
    ELSE Return(NeedsTreatmentText, a.prob, <<"transform", "predict_proba">>)

\* Faulty variant: no try/except around the adapter, its exception leaves
\* hybrid_predict.
hybrid_predict_no_except(sample, t, a) ==
    IF who_rule_check(sample) = "0"
    THEN Return(RuleViolationText, Zero, <<>>)
    ELSE IF a.transform = "raise"
    THEN [outcome |-> "raise", decision |-> <<a.error>>, prob |-> Zero,
          calls |-> <<"transform">>]
    ELSE IF a.predict_proba = "raise"
    THEN [outcome |-> "raise", decision |-> <<a.error>>, prob |-> Zero,
          calls |-> <<"transform", "predict_proba">>]
    ELSE IF DGe(a.prob, t)
    THEN Return(SafeText, a.prob, <<"transform", "predict_proba">>)
    ELSE Return(NeedsTreatmentText, a.prob, <<"transform", "predict_proba">>)

hybrid_predict(sample, t, a) ==
    IF who_rule_check(sample) = "0"
    THEN Return(RuleViolationText, Zero, <<>>)
    ELSE IF a.transform = "raise"
    THEN Return(PredictionErrorText(a.error), Zero, <<"transform">>)
    ELSE IF a.predict_proba = "raise"
    THEN Return(PredictionErrorText(a.error), Zero, <<"transform", "predict_proba">>)
    ELSE IF DGe(a.prob, t)
    THEN Return(SafeText, a.prob, <<"transform", "predict_proba">>)
    ELSE Return(NeedsTreatmentText, a.prob, <<"transform", "predict_proba">>)

(***************************************************************************)
(* GEMINI INSIGHT GENERATOR: the text of the response, or the failure      *)
(* message.  The prompt is built from the sample, the decision and the     *)
(* rounded probability; the reply does not depend on it in this model.     *)
(***************************************************************************)
\* Faulty variant: no try/except, the generator's exception leaves the function.
generate_water_insights_no_except(sample, decision, probability, r) ==
    IF r.outcome = "raise"
    THEN [outcome |-> "raise", text |-> <<r.text>>]
    ELSE [outcome |-> "return", text |-> <<r.text>>]

generate_water_insights(sample, decision, probability, r) ==
    IF r.outcome = "raise"
    THEN [outcome |-> "return", text |-> <<"CROSS", "AI insight generation failed.", r.text>>]
    ELSE [outcome |-> "return", text |-> <<r.text>>]

(***************************************************************************)
(* The linked inputs: the two on_change callbacks.                         *)
(***************************************************************************)
\* Faulty variant: both fields are recomputed, conductivity from the new tds.
_update_tds_both(ss, k) ==
    LET t == DMul(ss.conductivity, k)
    IN  [conductivity |-> DDiv(t, k), tds |-> t]

\* Faulty variant: the callback leaves tds as it was.
_update_tds_stale(ss, k) == ss

_update_tds(ss, k) ==
    [ss EXCEPT !.tds = DMul(ss.conductivity, k)]

\* Faulty variant: the conversion is applied the wrong way round.
_update_conductivity_times(ss, k) ==
    [ss EXCEPT !.conductivity = DMul(ss.tds, k)]

\* Faulty variant: a division of lower precision, whose quotient lies two units
\* in the last place below the correctly rounded one.
_update_conductivity_low(ss, k) ==
    LET c == DDiv(ss.tds, k)
    IN  IF c = ZeroDivisionError THEN c
        ELSE IF IsZero(c) THEN [ss EXCEPT !.conductivity = c]
        ELSE [ss EXCEPT !.conductivity = NextDown(NextDown(c))]

\* the session state after the callback, or ZeroDivisionError
_update_conductivity(ss, k) ==
    LET c == DDiv(ss.tds, k)
    IN  IF c = ZeroDivisionError THEN c ELSE [ss EXCEPT !.conductivity = c]

\* number_input raises when the value it is to show lies outside its bounds
WidgetsAccept(ss) ==
    /\ DLe(ss.conductivity, ConductivityMax)
    /\ DLe(ss.tds, TdsMax)

NoSession == <<>>
NoEdit == [field |-> "none", value |-> Absent]

(***************************************************************************)
(* The page.  Streamlit runs the script from top to bottom once when the   *)
(* session starts and once after every interaction of the user; a callback *)
(* runs before the rerun its widget causes.  Nothing interleaves: a run    *)
(* ends before the next interaction is taken.                              *)
(***************************************************************************)
Sample(p, t, c, o, d) ==
    [ph |-> p, turbidity |-> t, conductivity |-> c, dissolved_oxygen |-> o, tds |-> d]

HasCheckMark(decision) == \E i \in DOMAIN decision : decision[i] = "CHECK"

\* st.success / st.error of the decision, then st.info of the confidence
AssessmentElements(decision, prob) ==
    <<[kind |-> IF HasCheckMark(decision) THEN "success" ELSE "error", body |-> decision],
      [kind |-> "info", body |-> prob]>>

InsightElements(text) == <<[kind |-> "markdown", body |-> text]>>

ExceptionElements(e) == <<[kind |-> "exception", body |-> e]>>

\* lines 180-182
InitSession(ss, k) ==
    IF "conductivity" \notin DOMAIN ss
    THEN [conductivity |-> DefaultConductivity, tds |-> DMul(DefaultConductivity, k)]
    ELSE ss

\* A run of the script in which the button is not pressed: it ends at line 220
\* with the inputs on the page and nothing below them, or with the exception a
\* widget raised.
RerunWithoutButton(ss) ==
    /\ session_state' = ss
    /\ IF WidgetsAccept(ss)
       THEN pc' = "idle" /\ display' = <<>>
       ELSE pc' = "uncaught" /\ display' = ExceptionElements("StreamlitValueAboveMaxError")
    /\ sample_df' = Absent
    /\ result' = Absent
    /\ adapter' = Absent
    /\ response' = Absent
    /\ insights' = <<>>

\* The first run of a session.
FirstRun ==
    /\ pc = "new"
    /\ RerunWithoutButton(InitSession(session_state, TDS_FACTOR))
    /\ ph' = DefaultPh
    /\ turbidity' = DefaultTurbidity
    /\ dissolved_oxygen' = DefaultOxygen
    /\ UNCHANGED <<TDS_FACTOR, threshold, last_edit>>

EditPh ==
    /\ pc = "idle"
    /\ \E v \in PhInputs :
         /\ v # ph
         /\ ph' = v
    /\ RerunWithoutButton(session_state)
    /\ UNCHANGED <<TDS_FACTOR, turbidity, dissolved_oxygen, threshold, last_edit>>

EditTurbidity ==
    /\ pc = "idle"
    /\ \E v \in TurbidityInputs :
         /\ v # turbidity
         /\ turbidity' = v
    /\ RerunWithoutButton(session_state)
    /\ UNCHANGED <<TDS_FACTOR, ph, dissolved_oxygen, threshold, last_edit>>

EditDissolvedOxygen ==
    /\ pc = "idle"
    /\ \E v \in OxygenInputs :
         /\ v # dissolved_oxygen
         /\ dissolved_oxygen' = v
    /\ RerunWithoutButton(session_state)
    /\ UNCHANGED <<TDS_FACTOR, ph, turbidity, threshold, last_edit>>

\* The user changes Conductivity: the widget stores the value under its key,
\* _update_tds runs, the script reruns.
EditConductivity ==
    /\ pc = "idle"
    /\ \E v \in ConductivityInputs :
         /\ v # session_state.conductivity
         /\ last_edit' = [field |-> "conductivity", value |-> v]
         /\ RerunWithoutButton(
              _update_tds([session_state EXCEPT !.conductivity = v], TDS_FACTOR))
    /\ UNCHANGED <<TDS_FACTOR, ph, turbidity, dissolved_oxygen, threshold>>

\* The user changes TDS: the widget stores the value under its key,
\* _update_conductivity runs, the script reruns.  An exception of the callback
\* ends the run with the exception on the page.
EditTds ==
    /\ pc = "idle"
    /\ \E v \in TdsInputs :
         /\ v # session_state.tds
         /\ last_edit' = [field |-> "tds", value |-> v]
         /\ LET typed == [session_state EXCEPT !.tds = v]
                after == _update_conductivity(typed, TDS_FACTOR)
            IN  IF after = ZeroDivisionError
                THEN /\ session_state' = typed
                     /\ pc' = "uncaught"
                     /\ display' = ExceptionElements(after.raise)
                     /\ sample_df' = Absent
                     /\ result' = Absent
                     /\ adapter' = Absent
                     /\ response' = Absent
                     /\ insights' = <<>>
                ELSE RerunWithoutButton(after)
    /\ UNCHANGED <<TDS_FACTOR, ph, turbidity, dissolved_oxygen, threshold>>

\* The user presses Analyze: the script reruns, the button is true, and the
\* sample is assembled from the five widgets (lines 222-228).
AnalyzeAssemble ==
    /\ pc = "idle"
    /\ WidgetsAccept(session_state)
    /\ sample_df' = Sample(ph, turbidity, session_state.conductivity,
                           dissolved_oxygen, session_state.tds)
    /\ pc' = "assembled"
    /\ display' = <<>>
    /\ result' = Absent
    /\ adapter' = Absent
    /\ response' = Absent
    /\ insights' = <<>>
    /\ UNCHANGED <<TDS_FACTOR, session_state, ph, turbidity, dissolved_oxygen,
                   threshold, last_edit>>

\* line 230: decision, prob = hybrid_predict(sample_df)
AnalyzePredict ==
    /\ pc = "assembled"
    /\ \E a \in AdapterResponses :
         /\ adapter' = a
         /\ result' = hybrid_predict(sample_df, DefaultThreshold, a)
    /\ threshold' = DefaultThreshold
    /\ IF result'.outcome = "return"
       THEN pc' = "predicted" /\ display' = display
       ELSE pc' = "uncaught" /\ display' = ExceptionElements("Exception")
    /\ UNCHANGED <<TDS_FACTOR, session_state, ph, turbidity, dissolved_oxygen,
                   sample_df, response, insights, last_edit>>

\* lines 232-240: the verdict and the confidence are put on the page
AnalyzeShowAssessment ==
    /\ pc = "predicted"
    /\ display' = display \o AssessmentElements(result.decision, result.prob)
    /\ pc' = "assessed"
    /\ UNCHANGED <<TDS_FACTOR, session_state, ph, turbidity, dissolved_oxygen,
                   sample_df, threshold, adapter, result, response, insights, last_edit>>

\* lines 245-250: insights = generate_water_insights(...)
AnalyzeGenerateInsights ==
    /\ pc = "assessed"
    /\ \E r \in ReportResponses :
         /\ response' = r
         /\ LET got == generate_water_insights(sample_df, result.decision, result.prob, r)
            IN  IF got.outcome = "return"
                THEN insights' = got.text /\ pc' = "generated" /\ display' = display
                ELSE /\ insights' = <<>>
                     /\ pc' = "uncaught"
                     /\ display' = display \o ExceptionElements(r.text)
    /\ UNCHANGED <<TDS_FACTOR, session_state, ph, turbidity, dissolved_oxygen,
                   sample_df, threshold, adapter, result, last_edit>>

\* line 252: st.markdown(insights); the run ends
AnalyzeShowInsights ==
    /\ pc = "generated"
    /\ display' = display \o InsightElements(insights)
    /\ pc' = "idle"
    /\ UNCHANGED <<TDS_FACTOR, session_state, ph, turbidity, dissolved_oxygen,
                   sample_df, threshold, adapter, result, response, insights, last_edit>>

\* Nothing has run yet.
Blank ==
    /\ ph = Absent
    /\ turbidity = Absent
    /\ dissolved_oxygen = Absent
    /\ adapter = Absent
    /\ result = Absent
    /\ response = Absent
    /\ insights = <<>>
    /\ display = <<>>

\* A new session: nothing in st.session_state, the script not yet run.
Init ==
    /\ TDS_FACTOR = TdsFactorLiteral
    /\ session_state = NoSession
    /\ pc = "new"
    /\ sample_df = Absent
    /\ threshold = Absent
    /\ last_edit = NoEdit
    /\ Blank

Next ==
    \/ FirstRun
    \/ EditPh
    \/ EditTurbidity
    \/ EditDissolvedOxygen
    \/ EditConductivity
    \/ EditTds
    \/ AnalyzeAssemble
    \/ AnalyzePredict
    \/ AnalyzeShowAssessment
    \/ AnalyzeGenerateInsights
    \/ AnalyzeShowInsights

Spec == Init /\ [][Next]_vars

(***************************************************************************)
(* The same page when the conversion constant of line 177 is configured    *)
(* as 0.64 or as 0.                                                        *)
(***************************************************************************)
InitConfig ==
    /\ TDS_FACTOR \in {TdsFactorLiteral, Zero}
    /\ session_state = NoSession
    /\ pc = "new"
    /\ sample_df = Absent
    /\ threshold = Absent
    /\ last_edit = NoEdit
    /\ Blank

SpecConfig == InitConfig /\ [][Next]_vars

(***************************************************************************)
(* hybrid_predict on its own: any sample, any threshold, any adapter.      *)
(***************************************************************************)
Samples ==
    {Sample(Typed(p), Typed(t), Typed(c), Typed(o), Typed(d)) :
        p \in SamplePh, t \in SampleTurbidity, c \in SampleConductivity,
        o \in SampleOxygen, d \in SampleTds}

Thresholds == {Typed(n) : n \in ThresholdInputs}

InitHybrid ==
    /\ TDS_FACTOR = TdsFactorLiteral
    /\ session_state = NoSession
    /\ pc = "call"
    /\ sample_df \in Samples
    /\ threshold \in Thresholds
    /\ last_edit = NoEdit
    /\ Blank

HybridPredictCall ==
    /\ pc = "call"
    /\ \E a \in AdapterResponses :
         /\ adapter' = a
         /\ result' = hybrid_predict(sample_df, threshold, a)
    /\ pc' = "returned"
    /\ UNCHANGED <<TDS_FACTOR, session_state, ph, turbidity, dissolved_oxygen,
                   sample_df, threshold, response, insights, display, last_edit>>

NextHybrid == HybridPredictCall

SpecHybrid == InitHybrid /\ [][NextHybrid]_vars

(***************************************************************************)
(* The two callbacks applied one after the other to a value typed into one *)
(* of the linked fields (the other field holds its default).               *)
(***************************************************************************)
RoundTripValues == {Typed(n) : n \in RoundTripInputs}

InitRoundTrip ==
    /\ TDS_FACTOR = TdsFactorLiteral
    /\ \E v \in RoundTripValues :
         \/ /\ pc = "conductivity_typed"
            /\ last_edit = [field |-> "conductivity", value |-> v]
            /\ session_state = [conductivity |-> v,
                                tds |-> DMul(DefaultConductivity, TdsFactorLiteral)]
         \/ /\ pc = "tds_typed"
            /\ last_edit = [field |-> "tds", value |-> v]
            /\ session_state = [conductivity |-> DefaultConductivity, tds |-> v]
    /\ sample_df = Absent
    /\ threshold = Absent
    /\ Blank

CallUpdateTds ==
    /\ pc \in {"conductivity_typed", "conductivity_derived"}
    /\ session_state' = _update_tds(session_state, TDS_FACTOR)
    /\ pc' = IF pc = "conductivity_typed" THEN "tds_derived" ELSE "tds_back"
    /\ UNCHANGED <<TDS_FACTOR, ph, turbidity, dissolved_oxygen, sample_df, threshold,
                   adapter, result, response, insights, display, last_edit>>

CallUpdateConductivity ==
    /\ pc \in {"tds_typed", "tds_derived"}
    /\ session_state' = _update_conductivity(session_state, TDS_FACTOR)
    /\ pc' = IF pc = "tds_typed" THEN "conductivity_derived" ELSE "conductivity_back"
    /\ UNCHANGED <<TDS_FACTOR, ph, turbidity, dissolved_oxygen, sample_df, threshold,
                   adapter, result, response, insights, display, last_edit>>

NextRoundTrip == CallUpdateTds \/ CallUpdateConductivity

SpecRoundTrip == InitRoundTrip /\ [][NextRoundTrip]_vars
(***************************************************************************)
(* The properties.                                                         *)
(***************************************************************************)

\* At least one of the five bounds of the rule is violated.
RuleBoundViolated(sample) ==
    \/ DLt(sample.ph, PhLow)
    \/ DGt(sample.ph, PhHigh)
    \/ DGe(sample.turbidity, TurbidityLimit)
    \/ DGe(sample.conductivity, ConductivityLimit)
    \/ DLt(sample.dissolved_oxygen, OxygenLow)
    \/ DGt(sample.dissolved_oxygen, OxygenHigh)
    \/ DGe(sample.tds, TdsLimit)

\* C1: whenever a bound is violated, whatever the threshold and whatever the
\* adapter would have done, hybrid_predict returns the rule violation verdict
\* with confidence 0.0 and has invoked neither scaler.transform nor
\* model.predict_proba.
C1_RuleViolationShortCircuits ==
    (pc = "returned" /\ RuleBoundViolated(sample_df))
        => /\ result.outcome = "return"
           /\ result.decision = RuleViolationText
           /\ result.prob = Zero
           /\ result.calls = <<>>

\* a bound is violated, the adapter would have said "safe", and it was not asked
C1_Witness ==
    /\ pc = "returned"
    /\ RuleBoundViolated(sample_df)
    /\ ~AdapterFails(adapter)
    /\ DGe(adapter.prob, threshold)
    /\ result.decision = RuleViolationText
    /\ result.calls = <<>>

\* C2: who_rule_check reports a violation exactly when pH < 6.5 or pH > 8.5 or
\* turbidity >= 5 or conductivity >= 400 or dissolved oxygen < 6.5 or dissolved
\* oxygen > 8 or TDS >= 400; the bounds 6.5, 8.5 (pH) and 6.5, 8 (oxygen) are
\* accepted, the bounds 5, 400 and 400 are violations.
C2_RuleCheckBounds ==
    /\ (who_rule_check(sample_df) = "0") <=> RuleBoundViolated(sample_df)
    /\ ( /\ sample_df.ph \in {PhLow, PhHigh}
         /\ sample_df.dissolved_oxygen \in {OxygenLow, OxygenHigh}
         /\ DLt(sample_df.turbidity, TurbidityLimit)
         /\ DLt(sample_df.conductivity, ConductivityLimit)
         /\ DLt(sample_df.tds, TdsLimit) )
         => who_rule_check(sample_df) = None
    /\ ( \/ sample_df.turbidity = TurbidityLimit
         \/ sample_df.conductivity = ConductivityLimit
         \/ sample_df.tds = TdsLimit )
         => who_rule_check(sample_df) = "0"

\* pH and oxygen on their bounds, the rest just inside: no violation, and the
\* adapter was consulted
C2_Witness ==
    /\ pc = "returned"
    /\ sample_df.ph = PhLow
    /\ sample_df.dissolved_oxygen = OxygenHigh
    /\ who_rule_check(sample_df) = None
    /\ result.calls # <<>>

\* C3: with no bound violated and a probability p returned by the adapter,
\* hybrid_predict returns Safe with confidence p when p >= threshold and
\* NeedsTreatment with confidence p when p < threshold; p = threshold is Safe.
C3_ThresholdFusion ==
    (pc = "returned" /\ ~RuleBoundViolated(sample_df) /\ ~AdapterFails(adapter))
        => /\ result.outcome = "return"
           /\ result.prob = adapter.prob
           /\ DGe(adapter.prob, threshold) => result.decision = SafeText
           /\ DLt(adapter.prob, threshold) => result.decision = NeedsTreatmentText
           /\ adapter.prob = threshold => result.decision = SafeText

\* the probability equals the threshold and the verdict is Safe
C3_Witness ==
    /\ pc = "returned"
    /\ ~RuleBoundViolated(sample_df)
    /\ ~AdapterFails(adapter)
    /\ adapter.prob = threshold
    /\ result.decision = SafeText
    /\ result.prob = threshold

\* C4: with no bound violated and the adapter failing (scaling or prediction
\* raises), hybrid_predict returns normally a verdict that is not Safe, carries
\* the error detail and has confidence 0.0.
C4_AdapterFailureContained ==
    (pc = "returned" /\ ~RuleBoundViolated(sample_df) /\ AdapterFails(adapter))
        => /\ result.outcome = "return"
           /\ result.decision = PredictionErrorText(adapter.error)
           /\ ~HasCheckMark(result.decision)
           /\ result.prob = Zero

\* predict_proba raised on a sample that passes the rules
C4_Witness ==
    /\ pc = "returned"
    /\ ~RuleBoundViolated(sample_df)
    /\ adapter.predict_proba = "raise"
    /\ result.outcome = "return"
    /\ result.prob = Zero

\* tds is the float 0.64 * conductivity
LinkedExactly(c, t) == t = DMul(TdsFactorLiteral, c)

\* tds is the float 0.64 * conductivity or a neighbour of it
LinkedWithinOneUlp(c, t) == WithinOneUlp(t, DMul(TdsFactorLiteral, c))

StartsAtDefault ==
    (pc # "new" /\ last_edit = NoEdit)
        => session_state = [conductivity |-> FromInt(300), tds |-> FromInt(192)]

\* C5 as stated: the pair starts at conductivity 300.0, tds 192.0, and every
\* sample the Analyze action assembles has tds = 0.64 * conductivity.
C5_LinkedAtAnalyze ==
    /\ StartsAtDefault
    /\ sample_df # Absent
         => LinkedExactly(sample_df.conductivity, sample_df.tds)

\* C5 amended: the pair starts at conductivity 300.0, tds 192.0; every sample the
\* Analyze action assembles has tds within one unit in the last place of
\* 0.64 * conductivity, and exactly equal to it unless the last linked edit was
\* an edit of TDS.
C5_LinkedAtAnalyzeWithinRounding ==
    /\ StartsAtDefault
    /\ sample_df # Absent
         => /\ LinkedWithinOneUlp(sample_df.conductivity, sample_df.tds)
            /\ last_edit.field # "tds"
                 => LinkedExactly(sample_df.conductivity, sample_df.tds)

\* a sample assembled after an edit of TDS whose pair is off by rounding
C5_Witness ==
    /\ pc = "assembled"
    /\ last_edit.field = "tds"
    /\ sample_df.tds = last_edit.value
    /\ ~LinkedExactly(sample_df.conductivity, sample_df.tds)
    /\ LinkedWithinOneUlp(sample_df.conductivity, sample_df.tds)

\* the verdict and the confidence of this run are the first elements on the page
AssessmentShown ==
    /\ Len(display) >= 2
    /\ SubSeq(display, 1, 2) = AssessmentElements(result.decision, result.prob)

C6_AfterReportCall ==
    response # Absent
        => /\ pc \in {"generated", "idle"}
           /\ AssessmentShown
           /\ response.outcome = "raise"
                => insights = <<"CROSS", "AI insight generation failed.", response.text>>

\* C6: when the report generator fails, generate_water_insights returns a
\* failure message instead of raising; in every run of the Analyze action the
\* verdict and the confidence are on the page before the report generator is
\* called, and they stay on the page through the rest of the run, whether the
\* generator fails or not.
C6_VerdictShownBeforeReport ==
    /\ []C6_AfterReportCall
    /\ [][(response = Absent /\ response' # Absent) => AssessmentShown]_vars
    /\ [][(pc \in {"assessed", "generated"} /\ AssessmentShown) => AssessmentShown']_vars

\* a finished run whose report generator failed: verdict, confidence and the
\* failure message are on the page
C6_Witness ==
    /\ pc = "idle"
    /\ response # Absent
    /\ response.outcome = "raise"
    /\ AssessmentShown
    /\ Len(display) = 3
    /\ display[3].body = <<"CROSS", "AI insight generation failed.", response.text>>

C8_RoundTripExact ==
    /\ pc = "conductivity_back" => session_state.conductivity = last_edit.value
    /\ pc = "tds_back" => session_state.tds = last_edit.value

\* C8 amended: conductivity -> tds -> conductivity returns the conductivity typed
\* or a float next to it (one unit in the last place), and tds -> conductivity
\* -> tds returns the tds typed or a float next to it.
C8_RoundTripWithinOneUlp ==
    /\ pc = "conductivity_back"
         => WithinOneUlp(session_state.conductivity, last_edit.value)
    /\ pc = "tds_back"
         => WithinOneUlp(session_state.tds, last_edit.value)

\* a round trip from a conductivity that comes back as its neighbour
C8_Witness ==
    /\ pc = "conductivity_back"
    /\ session_state.conductivity # last_edit.value
    /\ WithinOneUlp(session_state.conductivity, last_edit.value)

C9_TypedValueKept ==
    /\ last_edit.field = "conductivity" => session_state.conductivity = last_edit.value
    /\ last_edit.field = "tds" => session_state.tds = last_edit.value

C9_EditStep ==
    last_edit' # last_edit
        => /\ ph' = ph
           /\ turbidity' = turbidity
           /\ dissolved_oxygen' = dissolved_oxygen
           /\ last_edit'.field = "conductivity"
                => /\ session_state'.conductivity = last_edit'.value
                   /\ session_state'.tds = DMul(last_edit'.value, TDS_FACTOR)
           /\ last_edit'.field = "tds"
                => /\ session_state'.tds = last_edit'.value
                   /\ session_state'.conductivity = DDiv(last_edit'.value, TDS_FACTOR)

\* C9: an edit of conductivity leaves conductivity at the value typed and
\* overwrites tds alone (with conductivity * 0.64); an edit of TDS leaves tds at
\* the value typed and overwrites conductivity alone (with tds / 0.64); neither
\* changes pH, turbidity or dissolved oxygen.
C9_OneSourceOfTruth ==
    /\ []C9_TypedValueKept
    /\ [][C9_EditStep]_vars

\* after an edit of TDS: tds is the value typed, conductivity was derived
C9_Witness ==
    /\ pc = "idle"
    /\ last_edit.field = "tds"
    /\ session_state.tds = last_edit.value
    /\ session_state.conductivity = DDiv(last_edit.value, TDS_FACTOR)
    /\ session_state.conductivity # DefaultConductivity

\* the TDS bound is violated and no other bound is
OnlyTdsViolated(sample) ==
    /\ DGe(sample.tds, TdsLimit)
    /\ RuleBoundViolated(sample)
    /\ ~RuleBoundViolated([sample EXCEPT !.tds = Zero])

\* C10: in every sample the Analyze action assembles, TDS >= 400 implies
\* conductivity >= 400, so the TDS bound is never the only bound violated.
C10_TdsRuleNeverAlone ==
    sample_df # Absent
        => /\ DGe(sample_df.tds, TdsLimit) => DGe(sample_df.conductivity, ConductivityLimit)
           /\ ~OnlyTdsViolated(sample_df)

\* a sample with TDS exactly 400 was assembled and rejected
C10_Witness ==
    /\ pc = "predicted"
    /\ sample_df.tds = TdsLimit
    /\ DGe(sample_df.conductivity, ConductivityLimit)
    /\ result.decision = RuleViolationText
====
